---- MODULE Spec2Model ----
(***************************************************************************)
(* Model of agent/database_optimizer.py: the index advisor (DBOptimizer)   *)
(* and the batch coordinator (OptimizeDatabaseQueries).                    *)
(*                                                                         *)
(* Representation                                                          *)
(*   - Python's None is the string None for names, and the empty tuple     *)
(*     for an optional number.                                             *)
(*   - A number is an exact rational <<numerator, denominator>>; the       *)
(*     code's float divisions are exact divisions here.                    *)
(*   - A dict is a sequence of its values in insertion order.              *)
(*   - A column reference "t.c" is the tuple of its dot-separated parts.   *)
(*   - A data-type string is the tuple of its characters.                  *)
(***************************************************************************)
EXTENDS Integers, Sequences, FiniteSets, TLC

VARIABLES
    parsed_query,      \* DBOptimizer.parsed_query: what sql_metadata's Parser extracted
    explain_plan,      \* DBOptimizer.explain_plan
    tables,            \* DBOptimizer.tables (dict name -> DBTable, insertion order)
    potential,         \* the candidate list handed to _remove_existing_indexes
    ret,               \* what the operation returned or raised
    trace,             \* the candidate pool around every existing index processed
    site,              \* the introspection service: what it answers per table name
    queries,           \* OptimizeDatabaseQueries.queries
    explain_output_of_queries, \* analyze's dict query -> [DBExplain]
    table_cache,       \* OptimizeDatabaseQueries.table_cache
    column_statistics_cache, \* OptimizeDatabaseQueries.column_statistics_cache
    suggested_indexes_of_queries, \* the mapping analyze builds
    qi,                \* position of analyze's loop over self.queries
    describe_calls,    \* calls of site.describe_database_table, per table name
    stats_calls,       \* calls of db.fetch_database_column_statistics, per table name
    pc                 \* where the modelled call stands

vars == <<parsed_query, explain_plan, tables, potential, ret, trace, site, queries,
          explain_output_of_queries, table_cache, column_statistics_cache, suggested_indexes_of_queries, qi,
          describe_calls, stats_calls, pc>>

optimizer_vars == <<parsed_query, explain_plan, tables, potential>>

analyze_vars == <<site, queries, explain_output_of_queries, table_cache, column_statistics_cache,
                  suggested_indexes_of_queries, qi, describe_calls, stats_calls>>

----------------------------------------------------------------------------
(* Bounds *)

MaxPool == 3        \* longest candidate list handed to the matcher
MaxRefs == 2        \* longest column list of one clause of a query
MaxPlan == 2        \* longest EXPLAIN plan
MaxQueries == 3     \* longest list of queries handed to analyze
MaxCard == 6        \* largest of the small cardinalities and row counts scored

----------------------------------------------------------------------------
(* Values *)

None == "<None>"

\* Names in Python's string order.
TableNames == <<"T1", "T2">>
ColumnNames == <<"*", "a", "b", "c", "name">>

SeqRange(s) == {s[i] : i \in DOMAIN s}

Rank(order, x) == CHOOSE i \in DOMAIN order : order[i] = x

\* list.sort(key=...): stable; less[i][j] says that the key of s[i] is below the
\* key of s[j].
StableSort(s, less) ==
    LET pos(i) == 1 + Cardinality({j \in DOMAIN s :
                        less[j][i] \/ (~less[i][j] /\ j < i)})
    IN  [p \in DOMAIN s |-> s[CHOOSE i \in DOMAIN s : pos(i) = p]]

\* The elements of s at the positions I, in order.
SubseqAt(s, I) ==
    [k \in 1..Cardinality(I) |->
        s[CHOOSE i \in I : Cardinality({j \in I : j < i}) = k - 1]]

RECURSIVE Flatten(_)
Flatten(ss) == IF ss = <<>> THEN <<>> ELSE Head(ss) \o Flatten(Tail(ss))

RECURSIVE GCD(_, _)
GCD(m, n) == IF n = 0 THEN m ELSE GCD(n, m % n)

\* Exact rationals in lowest terms with a positive denominator.
Rat(n) == <<n, 1>>
RDiv(p, q) ==
    LET n == p[1] * q[2]
        d == p[2] * q[1]
        g == GCD(n, d)
    IN  <<n \div g, d \div g>>
RLess(p, q) == p[1] * q[2] < q[1] * p[2]
REq(p, q) == p[1] * q[2] = q[1] * p[2]
\* Python truthiness of an optional number: None and 0 are falsy.
Truthy(p) == p # <<>> /\ p[1] # 0

\* DBIndex(column=..., name=..., table=...) with the dataclass defaults.
DBIndex(name, column, table) ==
    [name |-> name, column |-> column, table |-> table,
     cardinality |-> <<>>, sequence |-> 1, score |-> <<0, 1>>]

\* DBIndex.__eq__
DBIndexEq(x, y) ==
    x.column = y.column /\ x.sequence = y.sequence /\ x.table = y.table

\* list.remove(x): drops the first element equal to x.
ListRemove(list, x) ==
    LET hits == {i \in DOMAIN list : DBIndexEq(list[i], x)}
        first == CHOOSE i \in hits : \A j \in hits : i <= j
    IN  SubseqAt(list, DOMAIN list \ {first})

RECURSIVE RemoveEach(_, _)
RemoveEach(list, xs) ==
    IF xs = <<>> THEN list ELSE RemoveEach(ListRemove(list, Head(xs)), Tail(xs))

\* self.tables[name]
TableOf(tbls, name) == tbls[CHOOSE i \in DOMAIN tbls : tbls[i].name = name]

TableKeys(tbls) == {tbls[i].name : i \in DOMAIN tbls}

----------------------------------------------------------------------------
(* DBOptimizer._remove_existing_indexes *)

\* [i for i in potential_indexes if i.column == idx_part.column and i.table == idx_part.table]
matching_part(idx_part, pool) ==
    SelectSeq(pool, LAMBDA i : i.column = idx_part.column /\ i.table = idx_part.table)

\* Mutant: a part without a match gives up instead of shrinking the index.
remove_maximum_indexes_no_shrink(idx, pool) ==
    IF idx = <<>> THEN pool
    ELSE IF \E k \in DOMAIN idx : matching_part(idx[k], pool) = <<>>
         THEN pool
         ELSE RemoveEach(pool, Flatten([k \in DOMAIN idx |-> matching_part(idx[k], pool)]))

\* Mutant: the shrink drops the leading part of the index, not the trailing one.
RECURSIVE remove_maximum_indexes_pop_front(_, _)
remove_maximum_indexes_pop_front(idx, pool) ==
    IF idx = <<>> THEN pool
    ELSE IF \E k \in DOMAIN idx : matching_part(idx[k], pool) = <<>>
         THEN remove_maximum_indexes_pop_front(Tail(idx), pool)
         ELSE RemoveEach(pool, Flatten([k \in DOMAIN idx |-> matching_part(idx[k], pool)]))

\* The nested remove_maximum_indexes: the first part without a match pops the
\* last part and starts over; when every part matches, each match is removed.
RECURSIVE remove_maximum_indexes(_, _)
remove_maximum_indexes(idx, pool) ==
    IF idx = <<>> THEN pool
    ELSE IF \E k \in DOMAIN idx : matching_part(idx[k], pool) = <<>>
         THEN remove_maximum_indexes(SubSeq(idx, 1, Len(idx) - 1), pool)
         ELSE RemoveEach(pool, Flatten([k \in DOMAIN idx |-> matching_part(idx[k], pool)]))

\* merged_indexes of one table: its index rows grouped by name (in order of first
\* appearance), each group sorted by sequence.
merged_indexes(table) ==
    LET rows == table.indexes
        firsts == {i \in DOMAIN rows : \A j \in 1..(i - 1) : rows[j].name # rows[i].name}
        names == SubseqAt(rows, firsts)
    IN  [k \in DOMAIN names |->
            LET group == SelectSeq(rows, LAMBDA r : r.name = names[k].name)
            IN  StableSort(group, [i \in DOMAIN group |-> [j \in DOMAIN group |->
                                      group[i].sequence < group[j].sequence]])]

\* Every composite index in the order the two loops reach it.
IndexGroups(tbls) == Flatten([t \in DOMAIN tbls |-> merged_indexes(tbls[t])])

\* The pool before and after each index.
RECURSIVE ReductionTrace(_, _)
ReductionTrace(groups, pool) ==
    IF groups = <<>> THEN <<>>
    ELSE LET after == remove_maximum_indexes(Head(groups), pool)
         IN  <<[idx |-> Head(groups), before |-> pool, after |-> after]>>
               \o ReductionTrace(Tail(groups), after)

remove_existing_indexes(tbls, potential_indexes) ==
    LET steps == ReductionTrace(IndexGroups(tbls), potential_indexes)
    IN  IF steps = <<>> THEN potential_indexes ELSE steps[Len(steps)].after

----------------------------------------------------------------------------
(* DBTable, DBOptimizer.potential_indexes *)

\* DBTable.has_column
has_column(table, column) == \E i \in DOMAIN table.schema : table.schema[i].name = column

\* _convert_to_db_index: "t.c" names its table; a bare column takes the first
\* table (in dict order) whose schema has it, or None.
convert_to_db_index(tbls, column) ==
    IF Len(column) > 1
    THEN DBIndex(column[2], column[2], column[1])
    ELSE LET owners == {i \in DOMAIN tbls : has_column(tbls[i], column[1])}
             table == IF owners = {} THEN None
                      ELSE tbls[CHOOSE i \in owners : \A j \in owners : i <= j].name
         IN  DBIndex(column[1], column[1], table)

\* The key (i.table, i.column) of line 255, compared as Python compares tuples.
TableColumnLess(x, y) ==
    IF x.table # y.table /\ None \notin {x.table, y.table}
    THEN Rank(TableNames, x.table) < Rank(TableNames, y.table)
    ELSE Rank(ColumnNames, x.column) < Rank(ColumnNames, y.column)

\* The references the three rules collect, in rule order (lines 239-251).
possible_indexes(pq) ==
    pq.where \o pq.join \o (IF pq.order_by # <<>> /\ pq.limit THEN pq.order_by ELSE <<>>)

\* Lines 253-255: convert, drop "*" and "name", sort by (table, column).  Sorting
\* None against a table name is a TypeError.
possible_db_indexes(tbls, pq) ==
    LET refs == possible_indexes(pq)
        converted == [i \in DOMAIN refs |-> convert_to_db_index(tbls, refs[i])]
        kept == SelectSeq(converted, LAMBDA i : i.column \notin {"*", "name"})
        mixed == /\ \E i \in DOMAIN kept : kept[i].table = None
                 /\ \E i \in DOMAIN kept : kept[i].table # None
    IN  IF mixed THEN [kind |-> "error", error |-> "TypeError", value |-> <<>>]
        ELSE [kind |-> "list", error |-> "",
              value |-> StableSort(kept, [i \in DOMAIN kept |-> [j \in DOMAIN kept |->
                                             TableColumnLess(kept[i], kept[j])]])]

potential_indexes(tbls, pq) ==
    LET sorted == possible_db_indexes(tbls, pq)
    IN  IF sorted.kind = "error" THEN sorted
        ELSE [sorted EXCEPT !.value = remove_existing_indexes(tbls, sorted.value)]

----------------------------------------------------------------------------
(* DBOptimizer.index_score, suggest_index, can_be_optimized *)

INDEX_SCORE_THRESHOLD == <<3, 10>>
OPTIMIZATION_THRESHOLD == <<1, 10>>

\* Mutant: the rows fetched on average are returned without dividing by total_rows.
index_score_rows_fetched(tbls, index) ==
    LET table == TableOf(tbls, index.table)
        cardinality == IF Truthy(index.cardinality) THEN index.cardinality ELSE Rat(2)
    IN  RDiv(IF table.total_rows # 0 THEN Rat(table.total_rows) ELSE cardinality,
             cardinality)

index_score(tbls, index) ==
    LET table == TableOf(tbls, index.table)
        cardinality == IF Truthy(index.cardinality) THEN index.cardinality ELSE Rat(2)
        total_rows == IF table.total_rows # 0 THEN Rat(table.total_rows)
                      ELSE IF Truthy(cardinality) THEN cardinality ELSE Rat(1)
        rows_fetched_on_average ==
            RDiv(IF table.total_rows # 0 THEN Rat(table.total_rows) ELSE cardinality,
                 cardinality)
    IN  RDiv(rows_fetched_on_average, total_rows)

\* str.lower() on the characters type strings are written with.
Lower(ch) ==
    CASE ch = "A" -> "a" [] ch = "B" -> "b" [] ch = "C" -> "c" [] ch = "D" -> "d"
      [] ch = "E" -> "e" [] ch = "F" -> "f" [] ch = "G" -> "g" [] ch = "H" -> "h"
      [] ch = "I" -> "i" [] ch = "J" -> "j" [] ch = "K" -> "k" [] ch = "L" -> "l"
      [] ch = "M" -> "m" [] ch = "N" -> "n" [] ch = "O" -> "o" [] ch = "P" -> "p"
      [] ch = "Q" -> "q" [] ch = "R" -> "r" [] ch = "S" -> "s" [] ch = "T" -> "t"
      [] ch = "U" -> "u" [] ch = "V" -> "v" [] ch = "W" -> "w" [] ch = "X" -> "x"
      [] ch = "Y" -> "y" [] ch = "Z" -> "z"
      [] OTHER -> ch

LowerStr(s) == [i \in DOMAIN s |-> Lower(s[i])]

\* sub in s
Contains(s, sub) ==
    \E k \in 0..(Len(s) - Len(sub)) : \A i \in DOMAIN sub : s[k + i] = sub[i]

\* Mutant: the type test forgets to lower-case the type string.
not_indexable_case_sensitive(data_type) ==
    Contains(data_type, <<"t", "e", "x", "t">>) \/ Contains(data_type, <<"j", "s", "o", "n">>)

\* Line 327.
not_indexable(data_type) ==
    \/ Contains(LowerStr(data_type), <<"t", "e", "x", "t">>)
    \/ Contains(LowerStr(data_type), <<"j", "s", "o", "n">>)

\* Mutant: the set difference is taken the wrong way round.
missing_tables_swapped(tbls, pq) == TableKeys(tbls) \ SeqRange(pq.tables)

\* set(self.tables_examined) - set(self.tables.keys())
missing_tables(tbls, pq) == SeqRange(pq.tables) \ TableKeys(tbls)

\* Lines 322-330: what the loop raises at candidate i, if anything.
LookupError(tbls, index) ==
    IF index.table \notin TableKeys(tbls) THEN "KeyError"
    ELSE IF ~has_column(TableOf(tbls, index.table), index.column) THEN "StopIteration"
    ELSE ""

ColumnOf(tbls, index) ==
    LET schema == TableOf(tbls, index.table).schema
    IN  schema[CHOOSE i \in DOMAIN schema : schema[i].name = index.column]

\* Lines 322-333: the candidates left after the type filter, with the column's
\* cardinality and the score.
scored_indexes(tbls, pool) ==
    LET kept == SelectSeq(pool, LAMBDA i : ~not_indexable(ColumnOf(tbls, i).data_type))
        with_cardinality ==
            [i \in DOMAIN kept |->
                [kept[i] EXCEPT !.cardinality = ColumnOf(tbls, kept[i]).cardinality]]
    IN  [i \in DOMAIN with_cardinality |->
            [with_cardinality[i] EXCEPT !.score = index_score(tbls, with_cardinality[i])]]

ScoreLess(x, y) == RLess(x.score, y.score)

NoIndex == DBIndex(None, None, None)

Raised(error, names) == [kind |-> "error", error |-> error, names |-> names, index |-> NoIndex]

\* Mutant: a best candidate at the threshold is still returned.
best_or_none_inclusive(sorted) ==
    IF sorted # <<>> /\ ~RLess(INDEX_SCORE_THRESHOLD, sorted[1].score)
    THEN [kind |-> "index", error |-> "", names |-> {}, index |-> sorted[1]]
    ELSE [kind |-> "none", error |-> "", names |-> {}, index |-> NoIndex]

\* Lines 336-342.
best_or_none(sorted) ==
    IF sorted # <<>> /\ RLess(sorted[1].score, INDEX_SCORE_THRESHOLD)
    THEN [kind |-> "index", error |-> "", names |-> {}, index |-> sorted[1]]
    ELSE [kind |-> "none", error |-> "", names |-> {}, index |-> NoIndex]

suggest_index(tbls, pq) ==
    IF missing_tables(tbls, pq) # {}
    THEN Raised("Exception", missing_tables(tbls, pq))
    ELSE LET pool == potential_indexes(tbls, pq)
             failing == {i \in DOMAIN pool.value : LookupError(tbls, pool.value[i]) # ""}
         IN  IF pool.kind = "error" THEN Raised(pool.error, {})
             ELSE IF failing # {}
             THEN Raised(LookupError(tbls,
                      pool.value[CHOOSE i \in failing : \A j \in failing : i <= j]), {})
             ELSE LET scored == scored_indexes(tbls, pool.value)
                  IN  best_or_none(StableSort(scored,
                          [i \in DOMAIN scored |-> [j \in DOMAIN scored |->
                              ScoreLess(scored[i], scored[j])]]))

\* can_be_optimized: the first plan row that decides.  A supplied table with
\* total_rows 0 makes the division raise ZeroDivisionError.
can_be_optimized(tbls, plan) ==
    LET deciding == {i \in DOMAIN plan :
            /\ plan[i].table \in TableKeys(tbls)
            /\ LET total == TableOf(tbls, plan[i].table).total_rows
               IN  total = 0 \/ RLess(OPTIMIZATION_THRESHOLD, RDiv(Rat(plan[i].rows), Rat(total)))}
    IN  IF deciding = {} THEN [kind |-> "bool", value |-> FALSE, error |-> ""]
        ELSE LET first == CHOOSE i \in deciding : \A j \in deciding : i <= j
             IN  IF TableOf(tbls, plan[first].table).total_rows = 0
                 THEN [kind |-> "error", value |-> FALSE, error |-> "ZeroDivisionError"]
                 ELSE [kind |-> "bool", value |-> TRUE, error |-> ""]

----------------------------------------------------------------------------
(* Inputs *)

DBColumn(name, cardinality, data_type) ==
    [name |-> name, cardinality |-> cardinality, data_type |-> data_type]

\* One row of DBTable.indexes, as DBIndex.from_frappe_output builds it.
IndexRow(name, column, table, sequence) ==
    [name |-> name, column |-> column, table |-> table, sequence |-> sequence]

DBTable(name, total_rows, schema, indexes) ==
    [name |-> name, total_rows |-> total_rows, schema |-> schema, indexes |-> indexes]

Reverse(s) == [i \in DOMAIN s |-> s[Len(s) + 1 - i]]

\* The rows of the index `name` on `columns`, in sequence order.
RowsOf(name, columns, table) ==
    [i \in DOMAIN columns |-> IndexRow(name, columns[i], table, i)]

\* Column orders an index can have: no column twice.
IndexColumns(columns) ==
    {c \in UNION {[1..n -> columns] : n \in 1..Cardinality(columns)} :
        \A i, j \in DOMAIN c : i # j => c[i] # c[j]}

VarChar == <<"v", "a", "r", "c", "h", "a", "r">>

PlainSchema ==
    <<DBColumn("name", <<>>, VarChar), DBColumn("a", <<>>, VarChar),
      DBColumn("b", <<>>, VarChar), DBColumn("c", <<>>, VarChar)>>

\* The index rows a table can come with: at most two indexes, the rows as the
\* database lists them or the other way round.
IndexRowLists(table) ==
    LET cols == IndexColumns({"a", "b", "c"})
        one == {RowsOf("i1", c, table) : c \in cols}
        two == {RowsOf("i1", c, table) \o RowsOf("i2", d, table) : c \in cols, d \in cols}
    IN  {<<>>} \cup one \cup two \cup {Reverse(r) : r \in one \cup two}

\* Candidate lists as line 255 leaves them: sorted by (table, column).
Candidates == {DBIndex(c, c, "T1") : c \in {"a", "b", "c"}} \cup {DBIndex("a", "a", "T2")}

SortedPools ==
    {p \in UNION {[1..n -> Candidates] : n \in 0..MaxPool} :
        \A i \in 1..(Len(p) - 1) : ~TableColumnLess(p[i + 1], p[i])}

NoQuery == [tables |-> <<>>, where |-> <<>>, join |-> <<>>, order_by |-> <<>>, limit |-> FALSE]

AnalyzeIdle ==
    /\ site = <<>>
    /\ queries = <<>>
    /\ explain_output_of_queries = <<>>
    /\ table_cache = <<>>
    /\ column_statistics_cache = <<>>
    /\ suggested_indexes_of_queries = <<>>
    /\ qi = 0
    /\ describe_calls = <<>>
    /\ stats_calls = <<>>

----------------------------------------------------------------------------
(* _remove_existing_indexes on its own *)

InitMatch ==
    /\ tables \in {<<DBTable("T1", 10, PlainSchema, r1), DBTable("T2", 10, PlainSchema, r2)>> :
                       r1 \in IndexRowLists("T1"),
                       r2 \in {<<>>, RowsOf("i1", <<"a">>, "T2")}}
    /\ potential \in SortedPools
    /\ parsed_query = NoQuery
    /\ explain_plan = <<>>
    /\ ret = [kind |-> "pending", value |-> <<>>]
    /\ trace = <<>>
    /\ pc = "ready"
    /\ AnalyzeIdle

RemoveExistingIndexes ==
    /\ pc = "ready"
    /\ ret' = [kind |-> "list", value |-> remove_existing_indexes(tables, potential)]
    /\ trace' = ReductionTrace(IndexGroups(tables), potential)
    /\ pc' = "matched"
    /\ UNCHANGED <<optimizer_vars, analyze_vars>>

NextMatch == RemoveExistingIndexes

SpecMatch == InitMatch /\ [][NextMatch]_vars

\* The index part and the candidate name the same column of the same table.
Covers(part, cand) == part.column = cand.column /\ part.table = cand.table

Present(part, pool) == \E i \in DOMAIN pool : Covers(part, pool[i])

\* Length of the longest left-prefix of idx whose columns are all in the pool.
PrefixLen(idx, pool) ==
    CHOOSE n \in 0..Len(idx) :
        /\ \A j \in 1..n : Present(idx[j], pool)
        /\ \A m \in (n + 1)..Len(idx) : \E j \in 1..m : ~Present(idx[j], pool)

Without(pool, idx, n) ==
    SelectSeq(pool, LAMBDA c : ~\E j \in 1..n : Covers(idx[j], c))

\* The trace walks the composite indexes of the tables: one entry per (table,
\* index name), its rows in sequence order, each entry starting from the pool the
\* previous one left.
TraceWalksIndexes ==
    /\ \A k \in DOMAIN trace :
        /\ trace[k].before = IF k = 1 THEN potential ELSE trace[k - 1].after
        /\ \A i \in 1..(Len(trace[k].idx) - 1) :
              trace[k].idx[i].sequence < trace[k].idx[i + 1].sequence
        /\ \A i \in DOMAIN trace[k].idx : trace[k].idx[i].name = trace[k].idx[1].name
                                       /\ trace[k].idx[i].table = trace[k].idx[1].table
    /\ \A t \in DOMAIN tables : \A r \in DOMAIN tables[t].indexes :
          Cardinality({k \in DOMAIN trace :
              \E i \in DOMAIN trace[k].idx : trace[k].idx[i] = tables[t].indexes[r]}) = 1
    /\ ret.value = IF trace = <<>> THEN potential ELSE trace[Len(trace)].after

\* C1: for every existing composite index and every pool, the matcher removes
\* exactly the candidates of the longest left-prefix of the index whose columns
\* are all in the pool when the index is processed, and leaves every other
\* candidate; when the first column is absent nothing is removed.
C1_LongestPrefixRemoved ==
    pc = "matched" =>
        /\ TraceWalksIndexes
        /\ \A k \in DOMAIN trace :
              trace[k].after = Without(trace[k].before, trace[k].idx,
                                       PrefixLen(trace[k].idx, trace[k].before))

\* Index (A,B,C), pool with A and B (A twice) but no C: A and B go.
C1_Witness ==
    /\ pc = "matched"
    /\ \E k \in DOMAIN trace :
        /\ Len(trace[k].idx) = 3
        /\ PrefixLen(trace[k].idx, trace[k].before) = 2
        /\ Len(trace[k].before) = 3
        /\ trace[k].after = <<>>

\* Index (A,B,C) reached with A and C in the pool and B not.
GapCase(e) ==
    /\ Len(e.idx) = 3
    /\ Present(e.idx[1], e.before)
    /\ ~Present(e.idx[2], e.before)
    /\ Present(e.idx[3], e.before)

\* C2 as claimed: with A and C but no B in the pool, index (A,B,C) matches nothing
\* and removes nothing.
C2_NoMatchWithoutB ==
    pc = "matched" =>
        \A k \in DOMAIN trace : GapCase(trace[k]) => trace[k].after = trace[k].before

\* C2 amended: with A and C but no B in the pool, index (A,B,C) matches its
\* prefix (A): every candidate for A is removed, C and all others stay.
C2_PrefixAMatched ==
    pc = "matched" =>
        \A k \in DOMAIN trace : GapCase(trace[k]) =>
            /\ ~Present(trace[k].idx[1], trace[k].after)
            /\ trace[k].after =
                 SelectSeq(trace[k].before, LAMBDA c : ~Covers(trace[k].idx[1], c))
            /\ Present(trace[k].idx[3], trace[k].after)

C2_Witness ==
    /\ pc = "matched"
    /\ \E k \in DOMAIN trace : GapCase(trace[k]) /\ Len(trace[k].after) < Len(trace[k].before)

----------------------------------------------------------------------------
(* suggest_index *)

Text == <<"t", "e", "x", "t">>
LongTextUpper == <<"L", "O", "N", "G", "T", "E", "X", "T">>
MediumTextMixed == <<"M", "e", "d", "i", "u", "m", "T", "e", "x", "t">>
JsonUpper == <<"J", "S", "O", "N">>
IntType == <<"i", "n", "t">>

\* The types above that are free text or JSON.
TextOrJsonTypes == {Text, LongTextUpper, MediumTextMixed, JsonUpper}

\* (cardinality, type) of column a: unknown cardinality, scores above, at and
\* below the threshold, and well-scoring columns of every type.
ProfilesA ==
    {<<<<>>, VarChar>>, <<<<3, 1>>, VarChar>>, <<<<10, 3>>, VarChar>>, <<<<4, 1>>, VarChar>>,
     <<<<100, 1>>, IntType>>, <<<<100, 1>>, Text>>, <<<<100, 1>>, LongTextUpper>>,
     <<<<100, 1>>, JsonUpper>>}

ProfilesB == {<<<<>>, VarChar>>, <<<<4, 1>>, VarChar>>, <<<<100, 1>>, MediumTextMixed>>}

\* T1 has columns name, a, b; T2 has name, a; no table has a column c.
SuggestT1 ==
    {DBTable("T1", rows,
             <<DBColumn("name", <<>>, VarChar), DBColumn("a", pa[1], pa[2]),
               DBColumn("b", pb[1], pb[2])>>,
             idx) :
        rows \in {0, 100000}, pa \in ProfilesA, pb \in ProfilesB,
        idx \in {<<>>, RowsOf("i1", <<"a">>, "T1"), RowsOf("i1", <<"a", "b">>, "T1")}}

SuggestT2 ==
    DBTable("T2", 50, <<DBColumn("name", <<>>, VarChar), DBColumn("a", <<100, 1>>, VarChar)>>, <<>>)

WhereRefs == {<<"a">>, <<"b">>, <<"c">>, <<"T2", "a">>}

\* The column lists sql_metadata gives for one clause: no reference twice.
ClauseLists(refs, n) ==
    {c \in UNION {[1..m -> refs] : m \in 0..n} : \A i, j \in DOMAIN c : i # j => c[i] # c[j]}

SuggestQueries ==
    {[tables |-> t, where |-> w, join |-> j, order_by |-> o[1], limit |-> o[2]] :
        t \in {<<"T1">>, <<"T1", "T2">>},
        w \in ClauseLists(WhereRefs, MaxRefs),
        j \in {<<>>, <<<<"T1", "a">>>>},
        o \in {<<<<>>, FALSE>>, <<<<<<"b">>>>, TRUE>>, <<<<<<"b">>>>, FALSE>>}}

InitSuggest ==
    /\ tables \in {<<>>} \cup {<<t1>> : t1 \in SuggestT1} \cup {<<t1, SuggestT2>> : t1 \in SuggestT1}
    /\ parsed_query \in SuggestQueries
    /\ explain_plan = <<>>
    /\ potential = <<>>
    /\ ret = Raised("pending", {})
    /\ trace = <<>>
    /\ pc = "ready"
    /\ AnalyzeIdle

\* optimizer.suggest_index(); trace keeps what line 320 got from potential_indexes.
SuggestIndex ==
    /\ pc = "ready"
    /\ ret' = suggest_index(tables, parsed_query)
    /\ trace' = IF missing_tables(tables, parsed_query) # {} THEN <<>>
                ELSE <<potential_indexes(tables, parsed_query)>>
    /\ pc' = "suggested"
    /\ UNCHANGED <<optimizer_vars, analyze_vars>>

NextSuggest == SuggestIndex

SpecSuggest == InitSuggest /\ [][NextSuggest]_vars

\* The tables the query refers to that were not supplied.
NotSupplied ==
    {parsed_query.tables[i] : i \in DOMAIN parsed_query.tables} \
        {tables[i].name : i \in DOMAIN tables}

\* The candidates of the pool that pass the type filter, scored.
Survivors ==
    LET pool == trace[1].value
    IN  {[pool[i] EXCEPT !.cardinality = ColumnOf(tables, pool[i]).cardinality,
                         !.score = index_score(tables,
                             [pool[i] EXCEPT !.cardinality = ColumnOf(tables, pool[i]).cardinality])] :
            i \in {k \in DOMAIN pool : ColumnOf(tables, pool[k]).data_type \notin TextOrJsonTypes}}

\* C3: with every referenced table supplied, a returned candidate is a survivor
\* of index reduction and type filtering with the lowest score, and that score
\* is strictly below 0.3; when every survivor scores 0.3 or more, or there is
\* none, suggest_index returns none.
C3_LowestScoreBelowThreshold ==
    (pc = "suggested" /\ NotSupplied = {} /\ ret.kind # "error") =>
        /\ ret.kind = "index" =>
              /\ ret.index \in Survivors
              /\ \A s \in Survivors : ~RLess(s.score, ret.index.score)
              /\ ret.index.score[1] * 10 < 3 * ret.index.score[2]
        /\ (\A s \in Survivors : s.score[1] * 10 >= 3 * s.score[2]) => ret.kind = "none"

\* A lone candidate with cardinality 100 on a table of 100000 rows scores 0.01
\* and is returned.
C3_Witness ==
    /\ pc = "suggested"
    /\ ret.kind = "index"
    /\ Len(trace[1].value) = 1
    /\ TableOf(tables, ret.index.table).total_rows = 100000
    /\ ret.index.cardinality = <<100, 1>>
    /\ ret.index.score[1] * 100 = ret.index.score[2]

\* C4: suggest_index never returns a candidate whose column type is free text
\* or JSON, whatever its score and however often it is in the pool.
C4_NeverTextOrJson ==
    (pc = "suggested" /\ ret.kind = "index") =>
        ColumnOf(tables, ret.index).data_type \notin TextOrJsonTypes

\* A well-scoring text or JSON column is in the pool twice and another
\* candidate is returned.
C4_Witness ==
    /\ pc = "suggested"
    /\ ret.kind = "index"
    /\ \E i, j \in DOMAIN trace[1].value :
        /\ i # j
        /\ trace[1].value[i] = trace[1].value[j]
        /\ ColumnOf(tables, trace[1].value[i]).data_type \in TextOrJsonTypes
        /\ ColumnOf(tables, trace[1].value[i]).cardinality = <<100, 1>>

\* C8: when a referenced table was not supplied, suggest_index raises the
\* exception naming every missing table, before any candidate is generated.
C8_MissingTablesRaise ==
    (pc = "suggested" /\ NotSupplied # {}) =>
        /\ ret.kind = "error"
        /\ ret.error = "Exception"
        /\ ret.names = NotSupplied
        /\ trace = <<>>

\* Two tables are missing and both are named.
C8_Witness ==
    /\ pc = "suggested"
    /\ ret.kind = "error"
    /\ ret.names = {"T1", "T2"}

----------------------------------------------------------------------------
(* can_be_optimized *)

\* DBExplain, the fields can_be_optimized reads.
DBExplain(table, rows) == [table |-> table, rows |-> rows]

ExplainRows == {DBExplain(t, r) : t \in {"T1", "T2"}, r \in {0, 1, 2, 10, 11}}

TotalRows == {0, 10, 100}

InitExplain ==
    /\ tables \in {<<DBTable("T1", r1, PlainSchema, <<>>)>> : r1 \in TotalRows}
             \cup {<<DBTable("T1", r1, PlainSchema, <<>>), DBTable("T2", r2, PlainSchema, <<>>)>> :
                      r1 \in TotalRows, r2 \in TotalRows}
    /\ explain_plan \in UNION {[1..n -> ExplainRows] : n \in 0..MaxPlan}
    /\ parsed_query = NoQuery
    /\ potential = <<>>
    /\ ret = [kind |-> "pending", value |-> FALSE, error |-> ""]
    /\ trace = <<>>
    /\ pc = "ready"
    /\ AnalyzeIdle

CanBeOptimized ==
    /\ pc = "ready"
    /\ ret' = can_be_optimized(tables, explain_plan)
    /\ pc' = "checked"
    /\ UNCHANGED <<optimizer_vars, analyze_vars, trace>>

NextExplain == CanBeOptimized

SpecExplain == InitExplain /\ [][NextExplain]_vars

\* Some plan row names a supplied table of which it examines more than a tenth.
ReadsMoreThanTenth ==
    \E i \in DOMAIN explain_plan : \E t \in DOMAIN tables :
        /\ tables[t].name = explain_plan[i].table
        /\ tables[t].total_rows > 0
        /\ explain_plan[i].rows * 10 > tables[t].total_rows

\* C9 as claimed: can_be_optimized returns true exactly when some plan row names
\* a supplied table and examines more than 0.1 of its total_rows, and false
\* otherwise, for every row count including total_rows = 0.
C9_TrueIffOverThreshold ==
    pc = "checked" => (ret.kind = "bool" /\ ret.value = ReadsMoreThanTenth)

----------------------------------------------------------------------------
(* potential_indexes *)

CandidateT1 ==
    {DBTable("T1", 10, <<DBColumn("name", <<>>, VarChar), DBColumn("a", <<>>, VarChar),
                         DBColumn("b", <<>>, VarChar)>>, idx) :
        idx \in {<<>>, RowsOf("i1", <<"a">>, "T1"), RowsOf("i1", <<"a", "b">>, "T1")}}

CandidateRefs == {<<"a">>, <<"b">>, <<"c">>, <<"T1", "a">>, <<"T2", "a">>, <<"name">>, <<"*">>}

CandidateQueries ==
    {[tables |-> <<"T1">>, where |-> w, join |-> j, order_by |-> o, limit |-> l] :
        w \in ClauseLists(CandidateRefs, MaxRefs),
        j \in ClauseLists({<<"a">>, <<"T1", "a">>}, 1),
        o \in ClauseLists({<<"a">>, <<"b">>}, 1),
        l \in BOOLEAN}

InitCandidates ==
    /\ tables \in {<<>>} \cup {<<t1>> : t1 \in CandidateT1}
                 \cup {<<t1, SuggestT2>> : t1 \in CandidateT1}
                 \cup {<<SuggestT2, t1>> : t1 \in CandidateT1}
    /\ parsed_query \in CandidateQueries
    /\ explain_plan = <<>>
    /\ potential = <<>>
    /\ ret = [kind |-> "pending", error |-> "", value |-> <<>>]
    /\ trace = <<>>
    /\ pc = "ready"
    /\ AnalyzeIdle

PotentialIndexes ==
    /\ pc = "ready"
    /\ ret' = potential_indexes(tables, parsed_query)
    /\ pc' = "listed"
    /\ UNCHANGED <<optimizer_vars, analyze_vars, trace>>

NextCandidates == PotentialIndexes

SpecCandidates == InitCandidates /\ [][NextCandidates]_vars

\* C10 as claimed: the list potential_indexes returns never holds two candidates
\* with the same (table, column).
C10_NoDuplicateCandidates ==
    (pc = "listed" /\ ret.kind = "list") =>
        \A i, j \in DOMAIN ret.value :
            (ret.value[i].table = ret.value[j].table
                /\ ret.value[i].column = ret.value[j].column) => i = j

----------------------------------------------------------------------------
(* OptimizeDatabaseQueries *)

\* A dict with keys: its (key, value) entries in insertion order.
DictHas(dict, key) == \E i \in DOMAIN dict : dict[i].key = key

DictGet(dict, key) == dict[CHOOSE i \in DOMAIN dict : dict[i].key = key].value

DictPut(dict, key, value) ==
    IF DictHas(dict, key)
    THEN [i \in DOMAIN dict |->
            IF dict[i].key = key THEN [key |-> key, value |-> value] ELSE dict[i]]
    ELSE Append(dict, [key |-> key, value |-> value])

\* DBOptimizer.update_table_data
update_table_data(tbls, table) ==
    IF table.name \in TableKeys(tbls)
    THEN [i \in DOMAIN tbls |-> IF tbls[i].name = table.name THEN table ELSE tbls[i]]
    ELSE Append(tbls, table)

\* The from_frappe_output constructors.
DBColumn_from_frappe_output(data) == DBColumn(data.column, data.cardinality, data.type)

DBIndex_from_frappe_output(data, table) == IndexRow(data.name, data.column, table, data.sequence)

DBTable_from_frappe_output(data) ==
    DBTable(data.table_name, data.total_rows,
            [i \in DOMAIN data.schema |-> DBColumn_from_frappe_output(data.schema[i])],
            [i \in DOMAIN data.indexes |-> DBIndex_from_frappe_output(data.indexes[i], data.table_name)])

DBExplain_from_frappe_output(data) == DBExplain(data.table, data.rows)

ColumnStat(column_name, avg_frequency) ==
    [column_name |-> column_name, avg_frequency |-> avg_frequency]

\* DBTable.update_cardinality: a column without cardinality takes
\* total_rows / avg_frequency from the first statistic that has a frequency.
RECURSIVE update_cardinality(_, _)
update_cardinality(table, column_stats) ==
    IF column_stats = <<>> THEN table
    ELSE LET stat == Head(column_stats)
             schema == [i \in DOMAIN table.schema |->
                 IF /\ table.schema[i].name = stat.column_name
                    /\ ~Truthy(table.schema[i].cardinality)
                    /\ stat.avg_frequency # 0
                 THEN [table.schema[i] EXCEPT
                          !.cardinality = RDiv(Rat(table.total_rows), Rat(stat.avg_frequency))]
                 ELSE table.schema[i]]
         IN  update_cardinality([table EXCEPT !.schema = schema], Tail(column_stats))

\* What describe_database_table caches and returns for a table that came back empty.
NoneTable == DBTable(None, 0, <<>>, <<>>)

\* OptimizeDatabaseQueries.describe_database_table
describe_database_table(cache, calls, table_name) ==
    IF DictHas(cache, table_name)
    THEN [cache |-> cache, calls |-> calls, table |-> DictGet(cache, table_name)]
    ELSE LET result == site.describe[table_name]
             table == IF result.table_name = None THEN NoneTable
                      ELSE DBTable_from_frappe_output(result)
         IN  [cache |-> DictPut(cache, table_name, table),
              calls |-> [calls EXCEPT ![table_name] = @ + 1],
              table |-> table]

\* OptimizeDatabaseQueries.fetch_column_stats: reads the cache, never fills it.
fetch_column_stats(cache, calls, table_name) ==
    IF DictHas(cache, table_name)
    THEN [calls |-> calls, stats |-> DictGet(cache, table_name)]
    ELSE [calls |-> [calls EXCEPT ![table_name] = @ + 1], stats |-> site.stats[table_name]]

\* Lines 398-402: the loop over the query's tables.  update_cardinality works on
\* the cached DBTable object itself; a table that came back None stops the loop
\* with AttributeError after its statistics were fetched.
RECURSIVE load_tables(_, _)
load_tables(names, st) ==
    IF names = <<>> THEN st
    ELSE LET d == describe_database_table(st.cache, st.describe_calls, Head(names))
             f == fetch_column_stats(column_statistics_cache, st.stats_calls, Head(names))
             updated == update_cardinality(d.table, f.stats)
         IN  IF d.table = NoneTable
             THEN [st EXCEPT !.cache = d.cache, !.describe_calls = d.calls,
                             !.stats_calls = f.calls, !.error = "AttributeError"]
             ELSE load_tables(Tail(names),
                      [st EXCEPT !.cache = DictPut(d.cache, Head(names), updated),
                                 !.describe_calls = d.calls, !.stats_calls = f.calls,
                                 !.tables = update_table_data(st.tables, updated)])

\* The query texts analyze is given, with what the Parser makes of each.
QueryTexts == {"Q1", "Q2", "Q3", "Q4"}

Parser(query) ==
    CASE query = "Q1" -> [tables |-> <<"T1">>, where |-> <<<<"a">>>>, join |-> <<>>,
                          order_by |-> <<>>, limit |-> FALSE]
      [] query = "Q2" -> [tables |-> <<"T1", "T2">>, where |-> <<<<"T1", "b">>>>,
                          join |-> <<<<"T1", "a">>, <<"T2", "a">>>>,
                          order_by |-> <<>>, limit |-> FALSE]
      [] query = "Q3" -> [tables |-> <<"T2">>, where |-> <<<<"a">>>>, join |-> <<>>,
                          order_by |-> <<<<"a">>>>, limit |-> TRUE]
      [] query = "Q4" -> [tables |-> <<"T1">>, where |-> <<<<"c">>>>, join |-> <<>>,
                          order_by |-> <<>>, limit |-> FALSE]

\* What describe-database-table answers.
ColumnData(column, cardinality, type) ==
    [column |-> column, cardinality |-> cardinality, type |-> type]

IndexData(name, column, sequence) == [name |-> name, column |-> column, sequence |-> sequence]

TableData(table_name, total_rows, schema, indexes) ==
    [table_name |-> table_name, total_rows |-> total_rows, schema |-> schema,
     indexes |-> indexes]

NoneData == TableData(None, 0, <<>>, <<>>)

SiteT1 ==
    {NoneData} \cup
    {TableData("T1", 1000,
               <<ColumnData("name", <<>>, VarChar), ColumnData("a", <<>>, IntType),
                 ColumnData("b", <<100, 1>>, VarChar)>>, idx) :
        idx \in {<<>>, <<IndexData("i1", "a", 1)>>}}

SiteT2 ==
    {NoneData,
     TableData("T2", 50, <<ColumnData("name", <<>>, VarChar),
                           ColumnData("a", <<50, 1>>, VarChar)>>, <<>>)}

Sites ==
    {[explained |-> e,
      describe |-> [t \in {"T1", "T2"} |-> IF t = "T1" THEN d1 ELSE d2],
      stats |-> [t \in {"T1", "T2"} |-> IF t = "T1" THEN s1 ELSE <<>>]] :
        e \in {QueryTexts, QueryTexts \ {"Q1"}},
        d1 \in SiteT1, d2 \in SiteT2,
        s1 \in {<<>>, <<ColumnStat("a", 10)>>}}

\* site.db_instance().explain_queries(queries)
explain_queries(query) ==
    LET names == Parser(query).tables
    IN  [i \in DOMAIN names |-> [table |-> names[i], rows |-> 1]]

Init ==
    /\ site \in Sites
    /\ queries \in UNION {[1..n -> QueryTexts] : n \in 0..MaxQueries}
    /\ explain_output_of_queries = <<>>
    /\ table_cache = <<>>
    /\ column_statistics_cache = <<>>
    /\ suggested_indexes_of_queries = <<>>
    /\ qi = 0
    /\ describe_calls = [t \in {"T1", "T2"} |-> 0]
    /\ stats_calls = [t \in {"T1", "T2"} |-> 0]
    /\ parsed_query = NoQuery
    /\ explain_plan = <<>>
    /\ tables = <<>>
    /\ potential = <<>>
    /\ ret = Raised("pending", {})
    /\ trace = <<>>
    /\ pc = "ready"

RECURSIVE explain_outputs(_, _)
explain_outputs(qs, dict) ==
    IF qs = <<>> THEN dict
    ELSE explain_outputs(Tail(qs),
            IF Head(qs) \in site.explained
            THEN DictPut(dict, Head(qs),
                     LET out == explain_queries(Head(qs))
                     IN  [i \in DOMAIN out |-> DBExplain_from_frappe_output(out[i])])
            ELSE dict)

\* Lines 384-389.
AnalyzeStart ==
    /\ pc = "ready"
    /\ explain_output_of_queries' = explain_outputs(queries, <<>>)
    /\ suggested_indexes_of_queries' = <<>>
    /\ qi' = 1
    /\ pc' = "loop"
    /\ UNCHANGED <<optimizer_vars, ret, trace, site, queries, table_cache,
                   column_statistics_cache, describe_calls, stats_calls>>

\* Lines 392-393: no EXPLAIN output for the query.
AnalyzeSkipQuery ==
    /\ pc = "loop"
    /\ qi <= Len(queries)
    /\ ~DictHas(explain_output_of_queries, queries[qi])
    /\ qi' = qi + 1
    /\ UNCHANGED <<optimizer_vars, ret, trace, site, queries, explain_output_of_queries,
                   table_cache, column_statistics_cache, suggested_indexes_of_queries,
                   describe_calls, stats_calls, pc>>

\* Lines 394-404 for the query at qi.
Loaded ==
    load_tables(Parser(queries[qi]).tables,
                [cache |-> table_cache, describe_calls |-> describe_calls,
                 stats_calls |-> stats_calls, tables |-> <<>>, error |-> ""])

Suggested == suggest_index(Loaded.tables, Parser(queries[qi]))

\* Lines 394-408: one iteration that runs to its end.
AnalyzeQuery ==
    /\ pc = "loop"
    /\ qi <= Len(queries)
    /\ DictHas(explain_output_of_queries, queries[qi])
    /\ Loaded.error = ""
    /\ Suggested.kind # "error"
    /\ parsed_query' = Parser(queries[qi])
    /\ explain_plan' = DictGet(explain_output_of_queries, queries[qi])
    /\ tables' = Loaded.tables
    /\ table_cache' = Loaded.cache
    /\ describe_calls' = Loaded.describe_calls
    /\ stats_calls' = Loaded.stats_calls
    /\ suggested_indexes_of_queries' =
          IF Suggested.kind = "index"
          THEN DictPut(suggested_indexes_of_queries, queries[qi],
                   Append(IF DictHas(suggested_indexes_of_queries, queries[qi])
                          THEN DictGet(suggested_indexes_of_queries, queries[qi])
                          ELSE <<>>,
                          Suggested.index))
          ELSE suggested_indexes_of_queries
    /\ qi' = qi + 1
    /\ UNCHANGED <<potential, ret, trace, site, queries, explain_output_of_queries,
                   column_statistics_cache, pc>>

\* Lines 394-404: nothing catches what the iteration raises, analyze ends with it.
AnalyzeQueryRaises ==
    /\ pc = "loop"
    /\ qi <= Len(queries)
    /\ DictHas(explain_output_of_queries, queries[qi])
    /\ Loaded.error # "" \/ Suggested.kind = "error"
    /\ parsed_query' = Parser(queries[qi])
    /\ explain_plan' = DictGet(explain_output_of_queries, queries[qi])
    /\ tables' = Loaded.tables
    /\ table_cache' = Loaded.cache
    /\ describe_calls' = Loaded.describe_calls
    /\ stats_calls' = Loaded.stats_calls
    /\ ret' = IF Loaded.error # "" THEN Raised(Loaded.error, {}) ELSE Suggested
    /\ pc' = "raised"
    /\ UNCHANGED <<potential, trace, site, queries, explain_output_of_queries,
                   column_statistics_cache, suggested_indexes_of_queries, qi>>

\* Line 410.
AnalyzeReturn ==
    /\ pc = "loop"
    /\ qi > Len(queries)
    /\ ret' = [kind |-> "dict", error |-> "", names |-> {}, index |-> NoIndex]
    /\ pc' = "returned"
    /\ UNCHANGED <<optimizer_vars, trace, analyze_vars>>

Next == AnalyzeStart \/ AnalyzeSkipQuery \/ AnalyzeQuery \/ AnalyzeQueryRaises \/ AnalyzeReturn

Spec == Init /\ [][Next]_vars

\* C5 as claimed: during one analyze run the table-description fetcher and the
\* column-statistics fetcher are each invoked at most once per table name.
C5_FetchersOncePerTable ==
    \A t \in DOMAIN describe_calls : describe_calls[t] <= 1 /\ stats_calls[t] <= 1

\* C6 as claimed: a failure while processing one query never aborts the batch;
\* analyze goes on to the other queries and returns the mapping.
C6_BatchNeverAborted == pc # "raised"

\* C7 as claimed: every key of the mapping analyze returns holds exactly one
\* suggestion, also when a query text occurs more than once in the input.
C7_OneSuggestionPerQuery ==
    pc = "returned" =>
        \A i \in DOMAIN suggested_indexes_of_queries :
            Len(suggested_indexes_of_queries[i].value) = 1

----------------------------------------------------------------------------
(* index_score *)

\* Cardinalities a column can carry: None, 0 (an empty column), whole numbers,
\* and the fractions update_cardinality leaves (total_rows / avg_frequency).
Cardinalities ==
    {<<>>} \cup {Rat(c) : c \in 0..MaxCard}
           \cup {<<5, 2>>, <<10, 3>>, Rat(100), Rat(100000)}

ScoredRows == (0..MaxCard) \cup {100, 100000}

\* Two candidates on one table, each with its column's cardinality (line 330).
InitScore ==
    /\ \E rows \in ScoredRows, c1 \in Cardinalities, c2 \in Cardinalities :
        /\ tables = <<DBTable("T1", rows,
                              <<DBColumn("a", c1, IntType), DBColumn("b", c2, IntType)>>,
                              <<>>)>>
        /\ potential = <<[DBIndex("a", "a", "T1") EXCEPT !.cardinality = c1],
                         [DBIndex("b", "b", "T1") EXCEPT !.cardinality = c2]>>
    /\ parsed_query = NoQuery
    /\ explain_plan = <<>>
    /\ ret = [kind |-> "pending", value |-> <<>>]
    /\ trace = <<>>
    /\ pc = "ready"
    /\ AnalyzeIdle

\* Line 333 for each candidate.
IndexScore ==
    /\ pc = "ready"
    /\ ret' = [kind |-> "scores",
               value |-> [i \in DOMAIN potential |-> index_score(tables, potential[i])]]
    /\ pc' = "scored"
    /\ UNCHANGED <<optimizer_vars, analyze_vars, trace>>

NextScore == IndexScore

SpecScore == InitScore /\ [][NextScore]_vars

\* p = 1/n
IsOneOver(p, n) == p[1] * n = p[2]

\* The score of a column whose cardinality equals a positive total_rows is
\* 1/total_rows, and a column without cardinality scores as cardinality 2 does.
ScoreFixedPoints ==
    /\ \A i \in DOMAIN potential :
          (tables[1].total_rows > 0 /\ potential[i].cardinality = Rat(tables[1].total_rows))
              => IsOneOver(ret.value[i], tables[1].total_rows)
    /\ \A i, j \in DOMAIN potential :
          (potential[i].cardinality = <<>> /\ potential[j].cardinality = Rat(2))
              => ret.value[i] = ret.value[j]
    /\ \A i \in DOMAIN potential :
          potential[i].cardinality = <<>> => IsOneOver(ret.value[i], 2)

\* C11 as claimed: for a fixed total_rows and any two cardinalities c1 < c2 the
\* score of c1 is strictly above the score of c2; cardinality = total_rows
\* scores 1/total_rows; an unknown cardinality is scored as cardinality 2.
C11_StrictlyMonotonic ==
    pc = "scored" =>
        /\ \A i, j \in DOMAIN potential :
              (/\ potential[i].cardinality # <<>>
               /\ potential[j].cardinality # <<>>
               /\ RLess(potential[i].cardinality, potential[j].cardinality))
                  => RLess(ret.value[j], ret.value[i])
        /\ ScoreFixedPoints

\* C11 amended: for a fixed total_rows and any two positive cardinalities
\* c1 < c2 the score of c1 is strictly above the score of c2; cardinality =
\* total_rows > 0 scores 1/total_rows; an unknown cardinality and a cardinality
\* of 0 are both scored as cardinality 2 (score 1/2).
C11_MonotonicOnPositive ==
    pc = "scored" =>
        /\ \A i, j \in DOMAIN potential :
              (/\ Truthy(potential[i].cardinality)
               /\ Truthy(potential[j].cardinality)
               /\ RLess(potential[i].cardinality, potential[j].cardinality))
                  => RLess(ret.value[j], ret.value[i])
        /\ ScoreFixedPoints
        /\ \A i \in DOMAIN potential :
              potential[i].cardinality = Rat(0) => IsOneOver(ret.value[i], 2)

\* Cardinality 3 on a table of 3 rows scores 1/3, above the score of cardinality 4.
C11_Witness ==
    /\ pc = "scored"
    /\ tables[1].total_rows = 3
    /\ potential[1].cardinality = Rat(3)
    /\ potential[2].cardinality = Rat(4)
    /\ IsOneOver(ret.value[1], 3)
    /\ RLess(ret.value[2], ret.value[1])

====
